---- MODULE Spec2Model ----
(***************************************************************************)
(* Expense Tracker API (src/main.py): one table of Expense rows behind a   *)
(* FastAPI application.  Strings are sequences of one-character strings,   *)
(* so that strip(), lower() and len() are computed character by character. *)
(* Optional[T] values are <<>> (None) or <<v>>.  Amounts are whole numbers *)
(* (floats whose sums are exact).                                          *)
(*                                                                         *)
(* An operation is one endpoint: the validation of its parameters, the     *)
(* handler, and the validation of what it returns against response_model.  *)
(* Spec and SpecList call the endpoints one at a time; SpecHttp puts the   *)
(* router in front of them; SpecRace runs two worker processes on the same *)
(* database and splits every handler of more than one database statement   *)
(* at its statements.                                                      *)
(***************************************************************************)
EXTENDS Integers, Sequences, FiniteSets, TLC

VARIABLES expenses, req, resp, job

vars == <<expenses, req, resp, job>>

\* ------------------------------------------------------------ bounds
\* Largest row id the store hands out in the model (ids are max(id)+1).
MaxId == 2
\* Largest row id in the models of the list and the statistics.
MaxListId == 3

\* ------------------------------------------------------------ strings
None == <<>>
Some(v) == <<v>>

Range(s) == {s[i] : i \in 1..Len(s)}

UpperAZ == <<"A","B","C","D","E","F","G","H","I","J","K","L","M",
             "N","O","P","Q","R","S","T","U","V","W","X","Y","Z">>
LowerAZ == <<"a","b","c","d","e","f","g","h","i","j","k","l","m",
             "n","o","p","q","r","s","t","u","v","w","x","y","z">>

Digits == <<"0","1","2","3","4","5","6","7","8","9">>

\* The capital letters beyond Z up to U+00FF (U+00C0..U+00D6, U+00D8..U+00DE),
\* and their small letters (U+00E0..U+00F6, U+00F8..U+00FE).
UpperLatin1 == <<"À","Á","Â","Ã","Ä","Å","Æ","Ç","È","É","Ê","Ë","Ì","Í","Î",
                 "Ï","Ð","Ñ","Ò","Ó","Ô","Õ","Ö","Ø","Ù","Ú","Û","Ü","Ý","Þ">>
LowerLatin1 == <<"à","á","â","ã","ä","å","æ","ç","è","é","ê","ë","ì","í","î",
                 "ï","ð","ñ","ò","ó","ô","õ","ö","ø","ù","ú","û","ü","ý","þ">>

\* The capital letters str.lower() changes, and what it makes of them.
Capitals == UpperAZ \o UpperLatin1
Smalls == LowerAZ \o LowerLatin1

\* str.lower() on one character.
LowerChar(c) ==
    IF \E i \in 1..Len(Capitals) : Capitals[i] = c
    THEN Smalls[CHOOSE i \in 1..Len(Capitals) : Capitals[i] = c]
    ELSE c

\* str.lower()
Lower(s) == [i \in 1..Len(s) |-> LowerChar(s[i])]

\* The characters str.strip() removes: those str.isspace() is true of.  The
\* alphabet of the model is the characters up to U+00FF; of the whitespace
\* beyond it (U+1680, U+2000..U+200A, U+2028, U+2029, U+202F, U+205F, U+3000)
\* no string of the model holds one.  Separators are the characters U+001C to
\* U+001F.
Separators == {"", "", "", ""}

Whitespace ==
    {"\t", "\n", "", "\f", "\r", " ", "", " "} \cup Separators

\* s without its leading, and without its trailing, characters of the set cs.
RECURSIVE DropLeading(_, _)
DropLeading(s, cs) ==
    IF s # <<>> /\ Head(s) \in cs THEN DropLeading(Tail(s), cs) ELSE s

RECURSIVE DropTrailing(_, _)
DropTrailing(s, cs) ==
    IF s # <<>> /\ s[Len(s)] \in cs
    THEN DropTrailing(SubSeq(s, 1, Len(s) - 1), cs)
    ELSE s

LStrip(s) == DropLeading(s, Whitespace)

RStrip(s) == DropTrailing(s, Whitespace)

\* str.strip()
Strip(s) == RStrip(LStrip(s))

\* ------------------------------------------------------------ constants
sFood == <<"F","o","o","d">>
sTransportation == <<"T","r","a","n","s","p","o","r","t","a","t","i","o","n">>
sEntertainment == <<"E","n","t","e","r","t","a","i","n","m","e","n","t">>
sShopping == <<"S","h","o","p","p","i","n","g">>
sBills == <<"B","i","l","l","s">>
sHealth == <<"H","e","a","l","t","h">>
sOther == <<"O","t","h","e","r">>

CATEGORIES ==
    <<sFood, sTransportation, sEntertainment, sShopping, sBills, sHealth, sOther>>

sAll == <<"a","l","l">>
sDesc == <<"d","e","s","c">>

\* Field(..., max_length=200) of description.
MaxDescriptionLen == 200
\* Query(100, ge=1, le=1000) of limit.
MaxLimit == 1000

\* ------------------------------------------------------------ the store
\* Python truthiness of an Optional[str]: None and "" are falsy.
Truthy(o) == o # None /\ o[1] # <<>>

\* SQLite rowid for INTEGER PRIMARY KEY without AUTOINCREMENT.
NextId(store) ==
    IF store = {} THEN 1
    ELSE 1 + (CHOOSE m \in {e.id : e \in store} : \A e \in store : e.id <= m)

\* db.query(Expense).filter(Expense.id == expense_id).first(), as a set.
ById(store, id) == {e \in store : e.id = id}

\* The request ends without db.commit(): get_db closes the session and the
\* pending changes of the loaded row are discarded.
Abort(store, old, new) == store

\* db.commit(): the loaded row old is written back as the row new.
Commit(store, old, new) == (store \ {old}) \cup {new}

\* ------------------------------------------------------------ responses
\* A response: the HTTP status and the returned value (the detail on an error).
Reply(status, body) == [status |-> status, body |-> body]

Outcome(store, status, body) == [store |-> store, resp |-> Reply(status, body)]

InvalidCategory == Reply(400, "Invalid category")
NotFound == Reply(404, "Expense not found")
Unprocessable == Reply(422, "validation error")
ServerError == Reply(500, "Internal Server Error")

\* ------------------------------------------------------------ validation
\* ExpenseBase: amount gt=0, description min_length=1 and max_length=200,
\* both checked on the string as it was sent.
ExpenseCreateValid(amount, description) ==
    /\ amount > 0
    /\ Len(description) >= 1
    /\ Len(description) <= MaxDescriptionLen

\* Faulty variant: the amount bound is ge=0 in place of gt=0.
ExpenseUpdateValidGe(amount, description) ==
    /\ amount # None => amount[1] >= 0
    /\ description # None =>
          Len(description[1]) >= 1 /\ Len(description[1]) <= MaxDescriptionLen

\* ExpenseUpdate: every field optional, the same bounds when it is given.
ExpenseUpdateValid(amount, description) ==
    /\ amount # None => amount[1] > 0
    /\ description # None =>
          Len(description[1]) >= 1 /\ Len(description[1]) <= MaxDescriptionLen

\* ExpenseResponse inherits the bounds of ExpenseBase: a returned row is checked
\* against them when the response is built.
ExpenseResponseValid(row) ==
    /\ row.amount > 0
    /\ Len(row.description) >= 1
    /\ Len(row.description) <= MaxDescriptionLen

\* response_model=ExpenseResponse: the handler has returned row, the store is
\* as the handler left it; a row that fails the model is a server error.
ExpenseResponse(store, row) ==
    IF ExpenseResponseValid(row)
    THEN Outcome(store, 200, row)
    ELSE [store |-> store, resp |-> ServerError]

\* response_model=List[ExpenseResponse]
ExpenseResponseList(rows) ==
    IF \A i \in 1..Len(rows) : ExpenseResponseValid(rows[i])
    THEN Reply(200, rows)
    ELSE ServerError

\* `category and category.lower() != "all"`: the request names a category filter.
HasFilter(category) == Truthy(category) /\ Lower(category[1]) # sAll

\* The rows a query selects after its optional category filter.
Filtered(store, category) ==
    IF HasFilter(category)
    THEN {e \in store : e.category = category[1]}
    ELSE store

\* ------------------------------------------------------------ create
create_expense(store, amount, description, category, t1, t2) ==
    IF ~ExpenseCreateValid(amount, description)
    THEN [store |-> store, resp |-> Unprocessable]
    ELSE IF category \notin Range(CATEGORIES)
    THEN [store |-> store, resp |-> InvalidCategory]
    ELSE LET row == [id |-> NextId(store), amount |-> amount,
                     description |-> Strip(description), category |-> category,
                     date |-> t1, created_at |-> t2]
         IN ExpenseResponse(store \cup {row}, row)

\* ------------------------------------------------------------ update
\* Faulty variant: the new description is stored as sent.
ApplyFieldsUnstripped(old, amount, description) ==
    LET e1 == IF amount # None THEN [old EXCEPT !.amount = amount[1]] ELSE old
    IN IF description # None
       THEN [e1 EXCEPT !.description = description[1]]
       ELSE e1

\* The loaded row after the amount and description assignments.
ApplyFields(old, amount, description) ==
    LET e1 == IF amount # None THEN [old EXCEPT !.amount = amount[1]] ELSE old
    IN IF description # None
       THEN [e1 EXCEPT !.description = Strip(description[1])]
       ELSE e1

update_expense(store, id, amount, description, category) ==
    IF ~ExpenseUpdateValid(amount, description)
    THEN [store |-> store, resp |-> Unprocessable]
    ELSE IF ById(store, id) = {}
    THEN [store |-> store, resp |-> NotFound]
    ELSE LET old == CHOOSE e \in ById(store, id) : TRUE
             e2 == ApplyFields(old, amount, description)
         IN IF category # None /\ category[1] \notin Range(CATEGORIES)
            THEN [store |-> Abort(store, old, e2), resp |-> InvalidCategory]
            ELSE LET e3 == IF category # None
                           THEN [e2 EXCEPT !.category = category[1]]
                           ELSE e2
                 IN ExpenseResponse(Commit(store, old, e3), e3)

\* ------------------------------------------------------------ delete
delete_expense(store, id) ==
    IF ById(store, id) = {}
    THEN [store |-> store, resp |-> NotFound]
    ELSE Outcome(store \ ById(store, id), 200, "Expense deleted successfully")

\* ------------------------------------------------------------ delete all
ConfirmationRequired == Reply(400, "Confirmation required")

\* The message of a bulk delete.
Message(category) ==
    IF HasFilter(category)
    THEN <<"All", category[1], "expenses deleted successfully">>
    ELSE <<"All expenses deleted successfully">>

\* Faulty variant: the count ignores the category filter.
CountRowsUnfiltered(store, category) == Cardinality(store)

\* query.count()
CountRows(store, category) == Cardinality(Filtered(store, category))

\* Faulty variant: the bulk delete ignores the category filter.
BulkDeleteUnfiltered(store, category) == {}

\* The store after query.delete() and db.commit().
BulkDelete(store, category) == store \ Filtered(store, category)

delete_all_expenses(store, category, confirm) ==
    IF ~confirm
    THEN [store |-> store, resp |-> ConfirmationRequired]
    ELSE IF HasFilter(category) /\ category[1] \notin Range(CATEGORIES)
    THEN [store |-> store, resp |-> InvalidCategory]
    ELSE LET deleted_count == CountRows(store, category)
         IN Outcome(BulkDelete(store, category), 200,
                    [message |-> Message(category),
                     deleted_count |-> deleted_count])

\* ------------------------------------------------------------ ordering
\* Characters in code-point order (SQLite compares TEXT with BINARY collation).
CodePoints ==
    <<"\t", "\n", "", "\f", "\r", "", "", "", "", " ", "+", "-", ".">>
    \o Digits \o UpperAZ \o <<"_">> \o LowerAZ \o <<"", " ">>
    \o UpperLatin1 \o LowerLatin1

Code(c) == CHOOSE i \in 1..Len(CodePoints) : CodePoints[i] = c

RECURSIVE StrLess(_, _)
StrLess(a, b) ==
    IF b = <<>> THEN FALSE
    ELSE IF a = <<>> THEN TRUE
    ELSE IF Head(a) = Head(b) THEN StrLess(Tail(a), Tail(b))
    ELSE Code(Head(a)) < Code(Head(b))

\* The mapped columns of class Expense.
TextColumns == {"description", "category"}
ExpenseColumns == {"id", "amount", "date", "created_at"} \cup TextColumns

\* What the declarative mapping puts on class Expense besides its columns.
MappingAttrs ==
    {"__tablename__", "__table__", "__mapper__", "__abstract__", "metadata",
     "registry", "_sa_registry", "_sa_class_manager"}

\* What every Python class answers to: the attributes of object and of type.
ClassAttrs ==
    {"__annotations__", "__base__", "__bases__", "__basicsize__", "__call__",
     "__class__", "__delattr__", "__dict__", "__dictoffset__", "__dir__",
     "__doc__", "__eq__", "__flags__", "__format__", "__ge__",
     "__getattribute__", "__getstate__", "__gt__", "__hash__", "__init__",
     "__init_subclass__", "__instancecheck__", "__itemsize__", "__le__",
     "__lt__", "__module__", "__mro__", "__name__", "__ne__", "__new__",
     "__or__", "__prepare__", "__qualname__", "__reduce__", "__reduce_ex__",
     "__repr__", "__ror__", "__setattr__", "__sizeof__", "__str__",
     "__subclasscheck__", "__subclasses__", "__subclasshook__",
     "__text_signature__", "__weakref__", "__weakrefoffset__", "mro"}

\* Other attributes of class Expense: getattr finds them, and they are no
\* columns (none of them has desc() or asc()).
ExpenseOtherAttrs == MappingAttrs \cup ClassAttrs

\* getattr(Expense, sort_by, Expense.date)
SortColumn(sort_by) ==
    IF sort_by \in ExpenseColumns THEN sort_by
    ELSE IF sort_by \in ExpenseOtherAttrs THEN "<not a column>"
    ELSE "date"

\* x sorts strictly before y on column col, ascending.
Before(x, y, col) ==
    IF col \in TextColumns THEN StrLess(x[col], y[col]) ELSE x[col] < y[col]

\* e goes strictly before f in the requested direction.
Precedes(e, f, col, desc) == IF desc THEN Before(f, e, col) ELSE Before(e, f, col)

\* Insert e after the last row that does not come after it (a stable insertion).
RECURSIVE Insert(_, _, _, _)
Insert(e, s, col, desc) ==
    IF s = <<>> THEN <<e>>
    ELSE IF Precedes(e, Head(s), col, desc) THEN <<e>> \o s
    ELSE <<Head(s)>> \o Insert(e, Tail(s), col, desc)

\* ORDER BY col [DESC] over the rows in scan order.
RECURSIVE OrderBy(_, _, _)
OrderBy(scan, col, desc) ==
    IF scan = <<>> THEN <<>>
    ELSE Insert(scan[Len(scan)], OrderBy(SubSeq(scan, 1, Len(scan) - 1), col, desc),
                col, desc)

\* The orders in which the engine may scan a set of rows (the order of equal
\* keys is not fixed by ORDER BY).
RECURSIVE Scans(_)
Scans(S) ==
    IF S = {} THEN {<<>>}
    ELSE UNION {{<<x>> \o s : s \in Scans(S \ {x})} : x \in S}

Min(a, b) == IF a <= b THEN a ELSE b

\* OFFSET offset LIMIT limit
OffsetLimit(s, offset, limit) ==
    SubSeq(s, offset + 1, Min(Len(s), offset + limit))

\* ------------------------------------------------------------ list
\* Query(100, ge=1, le=1000) and Query(0, ge=0)
ListQueryValid(limit, offset) == limit >= 1 /\ limit <= MaxLimit /\ offset >= 0

\* The responses get_expenses may give (one per order of equal sort keys).
get_expenses(store, category, limit, offset, sort_by, sort_order) ==
    IF ~ListQueryValid(limit, offset)
    THEN {Unprocessable}
    ELSE IF HasFilter(category) /\ category[1] \notin Range(CATEGORIES)
    THEN {InvalidCategory}
    ELSE IF SortColumn(sort_by) \notin ExpenseColumns
    THEN {ServerError}
    ELSE {ExpenseResponseList(OffsetLimit(OrderBy(scan, SortColumn(sort_by),
                                                  Lower(sort_order) = sDesc),
                                          offset, limit)) :
             scan \in Scans(Filtered(store, category))}

\* ------------------------------------------------------------ get one
get_expense(store, id) ==
    IF ById(store, id) = {} THEN NotFound
    ELSE ExpenseResponse(store, CHOOSE e \in ById(store, id) : TRUE).resp

\* ------------------------------------------------------------ total
\* func.sum(Expense.amount) over the rows.  The amounts of the model are whole
\* numbers far below 2^53: their sum as doubles is exact and the same in every
\* order of the rows.  A sum of amounts with a fraction is rounded at every
\* addition and depends on the order the rows are read in; such amounts are
\* outside the model.
RECURSIVE SumAmount(_)
SumAmount(S) ==
    IF S = {} THEN 0
    ELSE LET e == CHOOSE x \in S : TRUE IN e.amount + SumAmount(S \ {e})

get_total(store, category) ==
    IF HasFilter(category) /\ category[1] \notin Range(CATEGORIES)
    THEN InvalidCategory
    ELSE Reply(200, [total |-> SumAmount(Filtered(store, category)),
                     count |-> Cardinality(Filtered(store, category)),
                     category |-> category])

\* ------------------------------------------------------------ stats
\* Python floats are IEEE 754 doubles: every operation gives the double nearest
\* to the exact result, a tie going to the even significand.  A natural number
\* is written here as the sequence of its binary digits, most significant
\* first, and a double as such a significand times a power of two.  The
\* arithmetic goes ChunkBits digits at a step.

\* Binary digits of a significand.
DoubleBits == 53

\* Binary digits handled in one step of a multiplication or a division.
ChunkBits == 8

\* The last k binary digits of v.
BitsOf(v, k) == [i \in 1..k |-> (v \div 2^(k - i)) % 2]

\* s without its leading zeros.
Significant(s) ==
    IF \A i \in 1..Len(s) : s[i] = 0 THEN <<>>
    ELSE SubSeq(s, CHOOSE i \in 1..Len(s) : s[i] = 1 /\ \A j \in 1..(i - 1) : s[j] = 0,
                Len(s))

\* The number a sequence of binary digits writes.
RECURSIVE BitsValue(_)
BitsValue(s) ==
    IF s = <<>> THEN 0 ELSE 2 * BitsValue(SubSeq(s, 1, Len(s) - 1)) + s[Len(s)]

\* The digits of s * c + carry, as many as s has and those of the last carry.
RECURSIVE MulCarry(_, _, _)
MulCarry(s, c, carry) ==
    IF Len(s) <= ChunkBits
    THEN Significant(BitsOf(BitsValue(s) * c + carry, 2 * ChunkBits))
    ELSE LET t == BitsValue(SubSeq(s, Len(s) - ChunkBits + 1, Len(s))) * c + carry
         IN MulCarry(SubSeq(s, 1, Len(s) - ChunkBits), c, t \div 2^ChunkBits)
            \o BitsOf(t, ChunkBits)

\* The digits of s + 1.
Inc(s) ==
    IF \A i \in 1..Len(s) : s[i] = 1 THEN <<1>> \o [i \in 1..Len(s) |-> 0]
    ELSE LET k == CHOOSE i \in 1..Len(s) : s[i] = 0 /\ \A j \in (i + 1)..Len(s) : s[j] = 1
         IN [i \in 1..Len(s) |-> IF i < k THEN s[i] ELSE IF i = k THEN 1 ELSE 0]

\* The first keep digits of s, rounded on the digits dropped: to nearest, a tie
\* to even.  sticky says that the exact value has nonzero digits after s.
RoundHalfEven(s, keep, sticky) ==
    IF Len(s) <= keep THEN s
    ELSE LET top == SubSeq(s, 1, keep)
             more == sticky \/ \E i \in (keep + 2)..Len(s) : s[i] = 1
             up == s[keep + 1] = 1 /\ (more \/ (keep > 0 /\ s[keep] = 1))
         IN IF up THEN Inc(top) ELSE top

\* The number of digits RoundHalfEven drops from a significand.
Dropped(s) == IF Len(s) > DoubleBits THEN Len(s) - DoubleBits ELSE 0

\* Long division by d: digits are the quotient's digits so far, f of them after
\* the binary point, r is the remainder; it stops when the digits from the
\* first 1 on are more than a significand.
RECURSIVE Quotient(_, _, _, _)
Quotient(r, d, digits, f) ==
    IF Len(Significant(digits)) > DoubleBits
    THEN [sig |-> Significant(digits), f |-> f, sticky |-> r # 0]
    ELSE Quotient((r * 2^ChunkBits) % d, d,
                  digits \o BitsOf((r * 2^ChunkBits) \div d, ChunkBits),
                  f + ChunkBits)

\* round(n / d * 100, 2) for floats n > 0 and d > 0 of whole value, in
\* hundredths of a percent: the double n / d, the double of its product with
\* 100, and that double rounded to two decimals (round() rounds the exact value
\* of the double, a tie to even).
Percentage(n, d) ==
    LET q == Quotient(n % d, d, Significant(BitsOf(n \div d, 30)), 0)
        m1 == RoundHalfEven(q.sig, DoubleBits, q.sticky)
        e1 == Dropped(q.sig) - q.f
        p == MulCarry(m1, 100, 0)
        m2 == RoundHalfEven(p, DoubleBits, FALSE)
        e2 == e1 + Dropped(p)
        h == MulCarry(m2, 100, 0)
        padded == IF Len(h) <= -e2 THEN [i \in 1..(1 - e2 - Len(h)) |-> 0] \o h ELSE h
    IN BitsValue(RoundHalfEven(padded, Len(padded) + e2, FALSE))

\* One row of GROUP BY category, as a CategoryStats.
GroupRow(store, category, total_amount) ==
    LET rows == {e \in store : e.category = category}
    IN [category |-> category,
        total |-> SumAmount(rows),
        count |-> Cardinality(rows),
        percentage |-> IF total_amount > 0
                       THEN Percentage(SumAmount(rows), total_amount)
                       ELSE 0]

\* category_stats.sort(key=lambda x: x.total, reverse=True): stable, descending.
RECURSIVE InsertByTotal(_, _)
InsertByTotal(g, s) ==
    IF s = <<>> THEN <<g>>
    ELSE IF g.total > Head(s).total THEN <<g>> \o s
    ELSE <<Head(s)>> \o InsertByTotal(g, Tail(s))

RECURSIVE SortByTotal(_)
SortByTotal(s) ==
    IF s = <<>> THEN <<>>
    ELSE InsertByTotal(s[Len(s)], SortByTotal(SubSeq(s, 1, Len(s) - 1)))

\* The first query of get_stats, sum and count over all rows, with the
\* defaults for an empty table.
TotalResult(store) ==
    [total_amount |-> SumAmount(store), total_expenses |-> Cardinality(store)]

\* get_stats from its second query on: the GROUP BY rows of the store as it is
\* then, each with its percentage of the total_amount the first query gave,
\* sorted; one response per order of the GROUP BY rows.
CategoryStats(store, totals) ==
    {Reply(200, [total_amount |-> totals.total_amount,
                 total_expenses |-> totals.total_expenses,
                 categories |->
                     SortByTotal([i \in 1..Len(scan) |->
                                     GroupRow(store, scan[i], totals.total_amount)])]) :
        scan \in Scans({e.category : e \in store})}

\* The responses of get_stats when nothing is committed between its two
\* queries: both read the same store.
get_stats(store) == CategoryStats(store, TotalResult(store))

\* ------------------------------------------------------------ routing
\* A request path is the sequence of its segments: /expenses/1 is
\* <<"expenses", "1">>, / is <<>>, and a path that ends in a slash has the
\* empty string as its last segment.
sExpenses == <<"e","x","p","e","n","s","e","s">>
sCategories == <<"c","a","t","e","g","o","r","i","e","s">>
sTotal == <<"t","o","t","a","l">>
sStats == <<"s","t","a","t","s">>
sOpenapi == <<"o","p","e","n","a","p","i",".","j","s","o","n">>
sDocs == <<"d","o","c","s">>
sOauth2Redirect == <<"o","a","u","t","h","2","-","r","e","d","i","r","e","c","t">>
sRedoc == <<"r","e","d","o","c">>

\* A path parameter in a route's path, such as {expense_id}.
Param == <<"{expense_id}">>

\* The routes in the order they are registered: those FastAPI() sets up for the
\* schema and the documentation (they answer HEAD as well), then one per
\* decorator.
Routes == <<
    [methods |-> {"GET", "HEAD"}, path |-> <<sOpenapi>>,          handler |-> "openapi"],
    [methods |-> {"GET", "HEAD"}, path |-> <<sDocs>>,             handler |-> "swagger_ui_html"],
    [methods |-> {"GET", "HEAD"}, path |-> <<sDocs, sOauth2Redirect>>,
                                                                  handler |-> "swagger_ui_redirect"],
    [methods |-> {"GET", "HEAD"}, path |-> <<sRedoc>>,            handler |-> "redoc_html"],
    [methods |-> {"GET"},    path |-> <<>>,                     handler |-> "root"],
    [methods |-> {"GET"},    path |-> <<sCategories>>,          handler |-> "get_categories"],
    [methods |-> {"POST"},   path |-> <<sExpenses>>,            handler |-> "create_expense"],
    [methods |-> {"GET"},    path |-> <<sExpenses>>,            handler |-> "get_expenses"],
    [methods |-> {"GET"},    path |-> <<sExpenses, Param>>,     handler |-> "get_expense"],
    [methods |-> {"PUT"},    path |-> <<sExpenses, Param>>,     handler |-> "update_expense"],
    [methods |-> {"DELETE"}, path |-> <<sExpenses, Param>>,     handler |-> "delete_expense"],
    [methods |-> {"GET"},    path |-> <<sExpenses, sTotal>>,    handler |-> "get_total"],
    [methods |-> {"GET"},    path |-> <<sExpenses, sStats>>,    handler |-> "get_stats"],
    [methods |-> {"DELETE"}, path |-> <<sExpenses>>,            handler |-> "delete_all_expenses"] >>

\* The route's path matches the request path, segment by segment.
PathMatches(pattern, path) ==
    /\ Len(pattern) = Len(path)
    /\ \A i \in 1..Len(path) :
          IF pattern[i] = Param THEN path[i] # <<>> ELSE pattern[i] = path[i]

FullMatches(method, path) ==
    {i \in 1..Len(Routes) :
        method \in Routes[i].methods /\ PathMatches(Routes[i].path, path)}

\* redirect_slashes: no route matches the path, and one matches the path with
\* its trailing slashes removed, or with a slash added when it has none.
RedirectPath(path) ==
    IF path[Len(path)] = <<>> THEN DropTrailing(path, {<<>>}) ELSE Append(path, <<>>)

Redirects(path) ==
    /\ path # <<>>
    /\ RedirectPath(path) # <<>>
    /\ \E i \in 1..Len(Routes) : PathMatches(Routes[i].path, RedirectPath(path))

\* The router takes the first route that matches path and method.
Route(method, path) ==
    IF FullMatches(method, path) # {}
    THEN Routes[CHOOSE i \in FullMatches(method, path) :
                    \A j \in FullMatches(method, path) : i <= j].handler
    ELSE IF \E i \in 1..Len(Routes) : PathMatches(Routes[i].path, path)
    THEN "405"
    ELSE IF Redirects(path)
    THEN "307"
    ELSE "404"

\* The characters the parsing of an int trims from both ends of its text.
IntSpace == Whitespace \ Separators

Trim(s) == DropTrailing(DropLeading(s, IntSpace), IntSpace)

\* The text without its sign.
Unsigned(t) == IF t # <<>> /\ t[1] \in {"+", "-"} THEN Tail(t) ELSE t

\* The text is an int as JSON writes one: an optional minus sign, and digits
\* that start with a zero only when the zero is all there is.
PlainInt(t) ==
    LET u == IF t # <<>> /\ t[1] = "-" THEN Tail(t) ELSE t
    IN /\ u # <<>>
       /\ \A i \in 1..Len(u) : u[i] \in Range(Digits)
       /\ Len(u) = 1 \/ u[1] # "0"

\* The text before its first point, and the text after it.
WholePart(u) ==
    IF "." \in Range(u)
    THEN SubSeq(u, 1, (CHOOSE i \in 1..Len(u) :
                           u[i] = "." /\ \A j \in 1..(i - 1) : u[j] # ".") - 1)
    ELSE u

FractionPart(u) ==
    IF "." \in Range(u) THEN SubSeq(u, Len(WholePart(u)) + 2, Len(u)) ELSE <<>>

\* The text after its sign starts with a digit.  Leading zeros, and the
\* underscores among them, are dropped up to the first other digit or a minus
\* sign; the last of them is kept before a point and when nothing follows.  A
\* text that starts or goes on otherwise is refused.
StripLeadingZeros(t) ==
    IF t = <<>> THEN None
    ELSE IF t[1] # "0"
    THEN IF t[1] \in Range(Digits) THEN Some(t) ELSE None
    ELSE LET others == {i \in 2..Len(t) : t[i] \notin {"0", "_"}}
             k == CHOOSE i \in others : \A j \in others : i <= j
         IN IF others = {} THEN Some(<<t[Len(t)]>>)
            ELSE IF t[k] \in (Range(Digits) \ {"0"}) \cup {"-"}
            THEN Some(SubSeq(t, k, Len(t)))
            ELSE IF t[k] = "." THEN Some(SubSeq(t, k - 1, Len(t)))
            ELSE None

\* A point followed by zeros, at least one, and by nothing else is dropped.
StripDecimalZeros(t) ==
    IF /\ FractionPart(t) # <<>>
       /\ \A i \in 1..Len(FractionPart(t)) : FractionPart(t)[i] = "0"
    THEN WholePart(t)
    ELSE t

\* Underscores are dropped when the text neither starts nor ends with one and
\* no two of them are adjacent.
StripUnderscores(t) ==
    IF /\ t # <<>> /\ t[1] # "_" /\ t[Len(t)] # "_"
       /\ \A i \in 1..(Len(t) - 1) : ~(t[i] = "_" /\ t[i + 1] = "_")
    THEN SelectSeq(t, LAMBDA c : c # "_")
    ELSE t

\* The text the parsing of an int falls back on when the text as sent is no
\* plain int: the sign is set apart, the rest is cleaned, and a minus sign is
\* put back; None when the text is refused at once.
CleanIntStr(s) ==
    LET t == Trim(s)
        z == StripLeadingZeros(Unsigned(t))
    IN IF z = None THEN None
       ELSE Some((IF t[1] = "-" THEN <<"-">> ELSE <<>>)
                 \o StripUnderscores(StripDecimalZeros(z[1])))

\* The text is accepted for an int path parameter.
IsIntText(s) ==
    \/ PlainInt(Trim(s))
    \/ CleanIntStr(s) # None /\ PlainInt(CleanIntStr(s)[1])

\* The number the digits of w write.
RECURSIVE DigitsValue(_)
DigitsValue(w) ==
    IF w = <<>> THEN 0
    ELSE 10 * DigitsValue(SubSeq(w, 1, Len(w) - 1))
         + (CHOOSE d \in 0..9 : Digits[d + 1] = w[Len(w)])

IntValue(s) ==
    LET t == IF PlainInt(Trim(s)) THEN Trim(s) ELSE CleanIntStr(s)[1]
    IN IF t[1] = "-" THEN -DigitsValue(Unsigned(t)) ELSE DigitsValue(Unsigned(t))

\* ------------------------------------------------------------ actions
Idle == [pc |-> "idle"]

Init ==
    /\ expenses = {}
    /\ req = [op |-> "none"]
    /\ resp = Reply(0, "none")
    /\ job = Idle

\* No request is being answered: the last response has been returned.
Ready == req.op = "none"

\* The response goes back to the caller; the next request may start.
Return ==
    /\ ~Ready
    /\ req' = [op |-> "none"]
    /\ resp' = Reply(0, "none")
    /\ UNCHANGED <<expenses, job>>

\* Every row id of the store is within the bound.
Within(store, maxid) == \A e \in store : e.id <= maxid

\* POST /expenses handled by create_expense; t1 and t2 are the two readings of
\* datetime.utcnow for the defaults of date and created_at.
CreateExpense(amount, description, category, t1, t2, maxid) ==
    LET out == create_expense(expenses, amount, description, category, t1, t2)
    IN /\ Ready
       /\ Within(out.store, maxid)
       /\ req' = [op |-> "create", amount |-> amount, description |-> description,
                  category |-> category]
       /\ expenses' = out.store
       /\ resp' = out.resp
       /\ UNCHANGED job

UpdateExpense(id, amount, description, category) ==
    LET out == update_expense(expenses, id, amount, description, category)
    IN /\ Ready
       /\ req' = [op |-> "update", id |-> id, amount |-> amount,
                  description |-> description, category |-> category]
       /\ expenses' = out.store
       /\ resp' = out.resp
       /\ UNCHANGED job

DeleteExpense(id) ==
    LET out == delete_expense(expenses, id)
    IN /\ Ready
       /\ req' = [op |-> "delete", id |-> id]
       /\ expenses' = out.store
       /\ resp' = out.resp
       /\ UNCHANGED job

DeleteAllExpenses(category, confirm) ==
    LET out == delete_all_expenses(expenses, category, confirm)
    IN /\ Ready
       /\ req' = [op |-> "delete_all", category |-> category, confirm |-> confirm]
       /\ expenses' = out.store
       /\ resp' = out.resp
       /\ UNCHANGED job

GetExpenses(category, limit, offset, sort_by, sort_order) ==
    /\ Ready
    /\ req' = [op |-> "list", category |-> category, limit |-> limit,
               offset |-> offset, sort_by |-> sort_by, sort_order |-> sort_order]
    /\ resp' \in get_expenses(expenses, category, limit, offset, sort_by, sort_order)
    /\ UNCHANGED <<expenses, job>>

GetExpense(id) ==
    /\ Ready
    /\ req' = [op |-> "get", id |-> id]
    /\ resp' = get_expense(expenses, id)
    /\ UNCHANGED <<expenses, job>>

GetTotal(category) ==
    /\ Ready
    /\ req' = [op |-> "total", category |-> category]
    /\ resp' = get_total(expenses, category)
    /\ UNCHANGED <<expenses, job>>

\* ------------------------------------------------------------ inputs
sA == <<"a">>
sPaddedA == <<" ", "a", " ">>
sBlank == <<" ">>
sUpperB == <<"B">>
sLowerFood == <<"f","o","o","d">>
sUpperAll == <<"A","L","L">>
sAsc == <<"a","s","c">>
sUpperDesc == <<"D","E","S","C">>
sUp == <<"u","p">>
\* A description one character longer than max_length allows.
sTooLong == [i \in 1..(MaxDescriptionLen + 1) |-> "a"]
sFormFeed == <<"\f">>

\* Two readings of the clock in one request: the same instant, or a later one.
Clock == {<<1, 1>>, <<1, 2>>, <<2, 2>>}

Amounts == {-1, 0, 1, 2}
Descriptions == {<<>>, sBlank, sFormFeed, sPaddedA, sA, sTooLong}
BodyCategories == {sFood, sBills, sLowerFood}
Ids == 1..(MaxId + 1)

UpdateAmounts == {None, Some(0), Some(1), Some(2)}
UpdateDescriptions == {None, Some(sBlank), Some(sPaddedA)}
UpdateCategories == {None, Some(sBills), Some(sLowerFood)}

QueryCategories ==
    {None, Some(<<>>), Some(sAll), Some(sUpperAll), Some(sFood), Some(sBills),
     Some(sLowerFood)}

\* The operations, each called with inputs from the sets above.
Next ==
    \/ \E a \in Amounts, d \in Descriptions, c \in BodyCategories, t \in Clock :
          CreateExpense(a, d, c, t[1], t[2], MaxId)
    \/ \E id \in Ids, a \in UpdateAmounts, d \in UpdateDescriptions,
          c \in UpdateCategories : UpdateExpense(id, a, d, c)
    \/ \E id \in Ids : DeleteExpense(id)
    \/ \E c \in QueryCategories, confirm \in BOOLEAN : DeleteAllExpenses(c, confirm)
    \/ \E id \in Ids : GetExpense(id)
    \/ \E c \in QueryCategories : GetTotal(c)
    \/ Return

Spec == Init /\ [][Next]_vars

\* ------------------------------------------------------------ list model
\* The expenses created in the model of the list operation: amount,
\* description, category and the two clock readings.
ListCreates ==
    { <<2, sA, sFood, 1, 2>>,
      <<1, sUpperB, sBills, 2, 2>>,
      <<1, sPaddedA, sFood, 1, 1>>,
      <<1, sBlank, sFood, 2, 2>> }

ListCategories == {None, Some(sFood), Some(sUpperAll), Some(sLowerFood)}
\* limit and offset pairs: inside their ranges, and just outside.
ListWindows ==
    ({1, 2, MaxLimit} \X {0, 1, 2}) \cup {<<0, 0>>, <<MaxLimit + 1, 0>>, <<1, -1>>}
SortFields == ExpenseColumns \cup {"metadata", "__tablename__", "__doc__", "name"}
SortOrders == {sAsc, sUpperDesc, sUp}

NextList ==
    \/ \E c \in ListCreates : CreateExpense(c[1], c[2], c[3], c[4], c[5], MaxListId)
    \/ \E id \in 1..MaxListId : DeleteExpense(id)
    \/ \E c \in ListCategories, w \in ListWindows, f \in SortFields,
          o \in SortOrders : GetExpenses(c, w[1], w[2], f, o)
    \/ Return

SpecList == Init /\ [][NextList]_vars

\* ------------------------------------------------------------ HTTP model
\* The response of the application to a request: the router picks the handler,
\* an int path parameter is parsed, and the handler runs.
HttpOutcomes(store, method, path, q) ==
    LET h == Route(method, path)
    IN CASE h \in {"openapi", "swagger_ui_html", "swagger_ui_redirect", "redoc_html"} ->
              {Outcome(store, 200, h)}
         [] h = "root" ->
              {Outcome(store, 200, [message |-> "Expense Tracker API", version |-> "1.0.0"])}
         [] h = "get_categories" ->
              {Outcome(store, 200, [categories |-> CATEGORIES])}
         [] h = "create_expense" ->
              {create_expense(store, q.amount, q.description, q.body_category, 1, 2)}
         [] h = "get_expenses" ->
              {[store |-> store, resp |-> r] :
                  r \in get_expenses(store, q.category, 100, 0, "date", sDesc)}
         [] h = "get_expense" ->
              IF IsIntText(path[2])
              THEN {[store |-> store, resp |-> get_expense(store, IntValue(path[2]))]}
              ELSE {[store |-> store, resp |-> Unprocessable]}
         [] h = "update_expense" ->
              IF IsIntText(path[2])
              THEN {update_expense(store, IntValue(path[2]), Some(q.amount),
                                   Some(q.description), Some(q.body_category))}
              ELSE {[store |-> store, resp |-> Unprocessable]}
         [] h = "delete_expense" ->
              IF IsIntText(path[2])
              THEN {delete_expense(store, IntValue(path[2]))}
              ELSE {[store |-> store, resp |-> Unprocessable]}
         [] h = "get_total" ->
              {[store |-> store, resp |-> get_total(store, q.category)]}
         [] h = "get_stats" ->
              {[store |-> store, resp |-> r] : r \in get_stats(store)}
         [] h = "delete_all_expenses" ->
              {delete_all_expenses(store, q.category, q.confirm)}
         [] h = "405" ->
              {Outcome(store, 405, "Method Not Allowed")}
         [] h = "307" ->
              {Outcome(store, 307, RedirectPath(path))}
         [] OTHER ->
              {Outcome(store, 404, "Not Found")}

HttpRequest(method, path, q) ==
    /\ Ready
    /\ \E out \in HttpOutcomes(expenses, method, path, q) :
        /\ Within(out.store, MaxId)
        /\ req' = [op |-> "http", method |-> method, path |-> path, q |-> q]
        /\ expenses' = out.store
        /\ resp' = out.resp
        /\ UNCHANGED job

Methods == {"GET", "HEAD", "POST", "PUT", "DELETE"}
Paths ==
    { <<>>, <<sCategories>>, <<sExpenses>>, <<sExpenses, <<"1">>>>,
      <<sExpenses, <<"2">>>>, <<sExpenses, sTotal>>, <<sExpenses, sStats>>,
      <<sTotal>>, <<sDocs>>, <<sExpenses, <<>>>>, <<sExpenses, <<"+","1",".","0">>>>,
      <<sExpenses, <<"-","1">>>>, <<sExpenses, <<"1",".">>>>,
      <<sExpenses, <<"0","-","1">>>>, <<sExpenses, <<"0","-","0","1">>>> }
HttpParams ==
    [category : {None, Some(sFood), Some(sLowerFood)}, confirm : BOOLEAN,
     amount : {1, 2}, description : {sA}, body_category : {sFood, sBills}]

NextHttp ==
    \/ \E m \in Methods, p \in Paths, q \in HttpParams : HttpRequest(m, p, q)
    \/ Return

SpecHttp == Init /\ [][NextHttp]_vars

\* ------------------------------------------------------------ race model
\* Two worker processes on the same database file.  A handler is a sequence
\* of database statements, and nothing is locked between two of them: a SELECT
\* leaves no transaction open, and a write is committed with the statement
\* that makes it.  job[w] is where worker w stands in its handler, what the
\* handler holds, and at the end its reply.  get_stats is such a sequence too:
\* its two queries are two statements.
Workers == {"A", "B"}

InitRace ==
    /\ expenses = {}
    /\ req = [op |-> "none"]
    /\ resp = Reply(0, "none")
    /\ job = [w \in Workers |-> Idle]

\* Worker w goes on to the state j of its handler.
Step(w, j) == job' = [job EXCEPT ![w] = j]

\* Worker w ends its handler with the reply.
Done(w, op, reply) == Step(w, [pc |-> "done", op |-> op, reply |-> reply])

\* The row with the id, read now: the row as a set, empty when it is gone.
Refreshed(store, id) ==
    IF ById(store, id) = {} THEN ServerError
    ELSE ExpenseResponse(store, CHOOSE e \in ById(store, id) : TRUE).resp

\* create_expense to db.commit(): the row is inserted with the next id.
CreateCommit(w, amount, description, category, t1, t2) ==
    /\ job[w].pc = "idle"
    /\ IF ~ExpenseCreateValid(amount, description)
       THEN Done(w, "create", Unprocessable) /\ UNCHANGED expenses
       ELSE IF category \notin Range(CATEGORIES)
       THEN Done(w, "create", InvalidCategory) /\ UNCHANGED expenses
       ELSE /\ NextId(expenses) <= MaxId
            /\ expenses' = expenses \cup
                   {[id |-> NextId(expenses), amount |-> amount,
                     description |-> Strip(description), category |-> category,
                     date |-> t1, created_at |-> t2]}
            /\ Step(w, [pc |-> "inserted", op |-> "create", id |-> NextId(expenses)])
    /\ UNCHANGED <<req, resp>>

\* create_expense from db.refresh() on: the row is read again and returned.
CreateRefresh(w) ==
    /\ job[w].pc = "inserted"
    /\ Done(w, "create", Refreshed(expenses, job[w].id))
    /\ UNCHANGED <<expenses, req, resp>>

\* update_expense up to db.commit(): the row is read and the fields are
\* assigned on the loaded object.
UpdateRead(w, id, amount, description, category) ==
    /\ job[w].pc = "idle"
    /\ IF ~ExpenseUpdateValid(amount, description)
       THEN Done(w, "update", Unprocessable)
       ELSE IF ById(expenses, id) = {}
       THEN Done(w, "update", NotFound)
       ELSE IF category # None /\ category[1] \notin Range(CATEGORIES)
       THEN Done(w, "update", InvalidCategory)
       ELSE LET old == CHOOSE e \in ById(expenses, id) : TRUE
                e2 == ApplyFields(old, amount, description)
                e3 == IF category # None THEN [e2 EXCEPT !.category = category[1]]
                      ELSE e2
            IN Step(w, [pc |-> "loaded", op |-> "update", id |-> id,
                        old |-> old, new |-> e3])
    /\ UNCHANGED <<expenses, req, resp>>

\* The columns an UPDATE sets: those whose value differs from the loaded one.
ChangedColumns(old, new) == {f \in {"amount", "description", "category"} : new[f] # old[f]}

\* The row cur with the changed columns written.
Written(cur, old, new) ==
    [f \in DOMAIN cur |-> IF f \in ChangedColumns(old, new) THEN new[f] ELSE cur[f]]

\* db.commit() of update_expense: UPDATE ... WHERE id = ? of the changed
\* columns, and no statement when none changed; an UPDATE that matches no row
\* fails the flush.
UpdateCommit(w) ==
    /\ job[w].pc = "loaded"
    /\ LET j == job[w]
       IN IF ChangedColumns(j.old, j.new) = {}
          THEN /\ UNCHANGED expenses
               /\ Step(w, [pc |-> "committed", op |-> "update", id |-> j.id])
          ELSE IF ById(expenses, j.id) = {}
          THEN /\ UNCHANGED expenses
               /\ Done(w, "update", ServerError)
          ELSE LET cur == CHOOSE e \in ById(expenses, j.id) : TRUE
               IN /\ expenses' = (expenses \ {cur}) \cup {Written(cur, j.old, j.new)}
                  /\ Step(w, [pc |-> "committed", op |-> "update", id |-> j.id])
    /\ UNCHANGED <<req, resp>>

\* update_expense from db.refresh() on.
UpdateRefresh(w) ==
    /\ job[w].pc = "committed"
    /\ Done(w, "update", Refreshed(expenses, job[w].id))
    /\ UNCHANGED <<expenses, req, resp>>

\* delete_expense up to db.delete(): the row is read.
DeleteRead(w, id) ==
    /\ job[w].pc = "idle"
    /\ IF ById(expenses, id) = {}
       THEN Done(w, "delete", NotFound)
       ELSE Step(w, [pc |-> "marked", op |-> "delete", id |-> id])
    /\ UNCHANGED <<expenses, req, resp>>

\* db.commit() of delete_expense: DELETE ... WHERE id = ?; a DELETE that
\* matches no row is a warning only.
DeleteCommit(w) ==
    /\ job[w].pc = "marked"
    /\ expenses' = expenses \ ById(expenses, job[w].id)
    /\ Done(w, "delete", Reply(200, "Expense deleted successfully"))
    /\ UNCHANGED <<req, resp>>

\* delete_all_expenses up to query.count(): confirm is true and the category
\* passed its check.  counted keeps the ids of the rows that matched then.
DeleteAllCount(w, category) ==
    /\ job[w].pc = "idle"
    /\ ~(HasFilter(category) /\ category[1] \notin Range(CATEGORIES))
    /\ Step(w, [pc |-> "counted", op |-> "delete_all", category |-> category,
                deleted_count |-> CountRows(expenses, category),
                counted |-> {e.id : e \in Filtered(expenses, category)}])
    /\ UNCHANGED <<expenses, req, resp>>

\* delete_all_expenses from query.delete() to its return; removed keeps the ids
\* of the rows query.delete() deleted.
DeleteAllFinish(w) ==
    /\ job[w].pc = "counted"
    /\ expenses' = BulkDelete(expenses, job[w].category)
    /\ Step(w, [pc |-> "done", op |-> "delete_all", category |-> job[w].category,
                counted |-> job[w].counted,
                removed |-> {e.id : e \in expenses \ BulkDelete(expenses, job[w].category)},
                reply |-> Reply(200, [message |-> Message(job[w].category),
                                      deleted_count |-> job[w].deleted_count])])
    /\ UNCHANGED <<req, resp>>

\* get_stats up to its second query: sum and count over all rows are read.
StatsTotals(w) ==
    /\ job[w].pc = "idle"
    /\ Step(w, [pc |-> "summed", op |-> "stats", totals |-> TotalResult(expenses)])
    /\ UNCHANGED <<expenses, req, resp>>

\* get_stats from its second query on: the GROUP BY rows are read from the
\* store as it is now, and the response is built.
StatsGroups(w) ==
    /\ job[w].pc = "summed"
    /\ \E reply \in CategoryStats(expenses, job[w].totals) : Done(w, "stats", reply)
    /\ UNCHANGED <<expenses, req, resp>>

\* The reply of worker w goes back to the caller; w takes the next request.
Respond(w) ==
    /\ job[w].pc = "done"
    /\ Step(w, Idle)
    /\ UNCHANGED <<expenses, req, resp>>

RaceCategories == {None, Some(sFood), Some(sBills)}
\* Amount and category of the creates, and of the updates.
RaceCreates == {<<1, sFood>>, <<1, sBills>>, <<0, sFood>>, <<1, sLowerFood>>}
RaceUpdates ==
    {<<None, Some(sFood)>>, <<None, Some(sBills)>>, <<Some(0), None>>,
     <<None, Some(sLowerFood)>>}

\* The statements of the two workers in any order.
NextRace ==
    \E w \in Workers :
        \/ \E c \in RaceCreates : CreateCommit(w, c[1], sA, c[2], 1, 2)
        \/ CreateRefresh(w)
        \/ \E id \in 1..MaxId, u \in RaceUpdates : UpdateRead(w, id, u[1], None, u[2])
        \/ UpdateCommit(w)
        \/ UpdateRefresh(w)
        \/ \E id \in 1..MaxId : DeleteRead(w, id)
        \/ DeleteCommit(w)
        \/ \E c \in RaceCategories : DeleteAllCount(w, c)
        \/ DeleteAllFinish(w)
        \/ StatsTotals(w)
        \/ StatsGroups(w)
        \/ Respond(w)

SpecRace == InitRace /\ [][NextRace]_vars

\* ============================================================ claims
AcceptedCategory(category) ==
    ~Truthy(category) \/ Lower(category[1]) = sAll \/ category[1] \in Range(CATEGORIES)

\* ------------------------------------------------------------ C1
\* C1: GET /expenses/total (category absent or valid) is answered by the total
\* operation with {total, count, category}, and GET /expenses/stats by the
\* stats operation; neither is taken by GET /expenses/{expense_id}.
C1_TotalAndStatsAreRouted ==
    (req.op = "http" /\ req.method = "GET") =>
        /\ (/\ req.path = <<sExpenses, sTotal>>
            /\ (req.q.category = None \/ req.q.category[1] \in Range(CATEGORIES)))
           => (resp.status = 200 /\ DOMAIN resp.body = {"total", "count", "category"})
        /\ req.path = <<sExpenses, sStats>>
           => (/\ resp.status = 200
               /\ DOMAIN resp.body = {"total_amount", "total_expenses", "categories"})

\* ------------------------------------------------------------ C2
BadCreate(r) ==
    \/ r.amount <= 0
    \/ \A i \in 1..Len(r.description) : r.description[i] \in Whitespace
    \/ r.category \notin Range(CATEGORIES)

\* C2: create fails and stores nothing when amount <= 0, or the description is
\* empty or only whitespace, or the category is not in the fixed set; no stored
\* record has a description that is empty after trimming.
C2_CreateRejectsBadInput ==
    [][/\ (req'.op = "create" /\ BadCreate(req'))
          => (resp'.status # 200 /\ expenses' = expenses)
       /\ \A e \in expenses' :
             \E i \in 1..Len(e.description) : e.description[i] \notin Whitespace]_vars

\* ------------------------------------------------------------ C3
\* C3: every stored expense has amount > 0 and a category of the fixed set.
C3_StoredRowsValid ==
    \A e \in expenses : e.amount > 0 /\ e.category \in Range(CATEGORIES)

\* An update was refused for its category while it carried a new amount, and
\* the store holds rows.
C3_Witness ==
    /\ req.op = "update"
    /\ resp.status = 400
    /\ req.amount # None
    /\ Cardinality(expenses) = 2

\* ------------------------------------------------------------ C4
\* The value a field has after an update that may or may not supply it.
Supplied(opt, prior) == IF opt = None THEN prior ELSE opt[1]

NoOuterWhitespace(d) ==
    d = <<>> \/ (d[1] \notin Whitespace /\ d[Len(d)] \notin Whitespace)

\* C4: a successful update replaces exactly the supplied fields of record id
\* (the description stored trimmed) and leaves its omitted fields, its id, date
\* and created_at, and every other record unchanged.
C4_UpdateFrame ==
    [][(req'.op = "update" /\ resp'.status = 200) =>
          /\ Cardinality(ById(expenses, req'.id)) = 1
          /\ Cardinality(ById(expenses', req'.id)) = 1
          /\ LET old == CHOOSE e \in ById(expenses, req'.id) : TRUE
                 new == CHOOSE e \in ById(expenses', req'.id) : TRUE
             IN /\ new.amount = Supplied(req'.amount, old.amount)
                /\ new.category = Supplied(req'.category, old.category)
                /\ req'.description = None => new.description = old.description
                /\ req'.description # None =>
                      /\ new.description = Strip(req'.description[1])
                      /\ NoOuterWhitespace(new.description)
                /\ new.id = old.id
                /\ new.date = old.date
                /\ new.created_at = old.created_at
                /\ resp'.body = new
          /\ {e \in expenses' : e.id # req'.id} = {e \in expenses : e.id # req'.id}]_vars

\* A successful update that supplied only a padded description, with another
\* record in the store.
C4_Witness ==
    /\ req.op = "update"
    /\ resp.status = 200
    /\ req.amount = None
    /\ req.category = None
    /\ req.description = Some(sPaddedA)
    /\ resp.body.description = sA
    /\ Cardinality(expenses) = 2

\* ------------------------------------------------------------ C5
\* C5: a call that fails leaves the stored records as they were: deleteAll
\* without confirm=true always fails, whatever the category; an update refused
\* for its category persists no amount or description of the same call; update
\* or delete of an id that does not exist changes nothing.
C5_FailedCallsChangeNothing ==
    [][/\ (resp'.status # 200 => expenses' = expenses)
       /\ (req'.op = "delete_all" /\ ~req'.confirm) => resp'.status = 400
       /\ (req'.op = "update" /\ req'.category # None
              /\ req'.category[1] \notin Range(CATEGORIES)) => resp'.status # 200
       /\ (req'.op \in {"update", "delete"} /\ ById(expenses, req'.id) = {})
              => resp'.status # 200]_vars

\* C5, apart from server errors: the same holds of every call that is not
\* answered 500 (a 500 follows a commit only for a description that is blank,
\* see C2).
C5_ApartFromServerErrors ==
    [][resp'.status # 500 =>
          /\ (resp'.status # 200 => expenses' = expenses)
          /\ (req'.op = "delete_all" /\ ~req'.confirm) => resp'.status = 400
          /\ (req'.op = "update" /\ req'.category # None
                 /\ req'.category[1] \notin Range(CATEGORIES)) => resp'.status # 200
          /\ (req'.op \in {"update", "delete"} /\ ById(expenses, req'.id) = {})
                 => resp'.status # 200]_vars

\* ------------------------------------------------------------ C8
\* C8 as stated: deleteAll(confirm=true, category) removes the records matching
\* the filter (all records when category is absent or equals "all" in any
\* case, otherwise those whose category equals the given one), leaves the
\* others, and returns the number it removed.
C8_AsStated ==
    [][(req'.op = "delete_all" /\ resp'.status = 200) =>
          LET given == req'.category
              match == IF given = None \/ Lower(given[1]) = sAll
                       THEN expenses
                       ELSE {e \in expenses : e.category = given[1]}
          IN /\ expenses' = expenses \ match
             /\ resp'.body.deleted_count = Cardinality(match)]_vars

\* C8 (amended): the same, with an empty category string treated as an absent
\* one; a category outside the fixed set fails and removes nothing.
C8_BulkDeleteExact ==
    [][(req'.op = "delete_all" /\ req'.confirm) =>
          LET given == req'.category
              match == IF given = None \/ given[1] = <<>> \/ Lower(given[1]) = sAll
                       THEN expenses
                       ELSE {e \in expenses : e.category = given[1]}
          IN IF AcceptedCategory(given)
             THEN /\ resp'.status = 200
                  /\ expenses' = expenses \ match
                  /\ resp'.body.deleted_count = Cardinality(expenses) - Cardinality(expenses')
                  /\ resp'.body.deleted_count = Cardinality(match)
             ELSE resp'.status = 400 /\ expenses' = expenses]_vars

\* A bulk delete of one category removed a record and left another.
C8_Witness ==
    /\ req.op = "delete_all"
    /\ resp.status = 200
    /\ req.category = Some(sFood)
    /\ resp.body.deleted_count = 1
    /\ \E e \in expenses : e.category = sBills

\* ------------------------------------------------------------ C6
\* The records a category filter selects: all of them without a filter.
Matching(category) ==
    IF ~Truthy(category) \/ Lower(category[1]) = sAll
    THEN expenses
    ELSE {e \in expenses : e.category = category[1]}

Descending(sort_order) == Lower(sort_order) = sDesc

\* s is ordered by column col in the given direction (equal keys in any order).
Ordered(s, col, desc) ==
    \A i, j \in 1..Len(s) :
        i < j => IF desc THEN ~Before(s[i], s[j], col) ELSE ~Before(s[j], s[i], col)

\* body is the page of some ordered arrangement of rows: offset skipped, at
\* most limit taken.
IsPage(body, rows, col, desc, offset, limit) ==
    \E s \in Scans(rows) :
        /\ Ordered(s, col, desc)
        /\ Len(body) = Min(limit, IF Len(s) > offset THEN Len(s) - offset ELSE 0)
        /\ \A i \in 1..Len(body) : body[i] = s[offset + i]

ListAccepted(r) ==
    /\ r.op = "list"
    /\ r.limit \in 1..MaxLimit
    /\ r.offset >= 0
    /\ AcceptedCategory(r.category)

\* C6: for a category filter, a sort field of Expense, a sort order, a limit in
\* [1,1000] and an offset >= 0, list returns the matching records ordered by
\* the sort field in the requested direction, the first offset of them skipped
\* and at most limit of the following ones taken; never more than limit.
C6_ListPage ==
    (ListAccepted(req) /\ req.sort_by \in ExpenseColumns) =>
        /\ resp.status = 200
        /\ Len(resp.body) <= req.limit
        /\ IsPage(resp.body, Matching(req.category), req.sort_by,
                  Descending(req.sort_order), req.offset, req.limit)

\* C6, apart from server errors: an accepted list call is answered 500 only
\* when the store holds a record with an empty description (see C2), and is
\* otherwise answered with the page.
C6_ApartFromServerErrors ==
    (ListAccepted(req) /\ req.sort_by \in ExpenseColumns) =>
        IF resp.status = 500
        THEN \E e \in expenses : e.description = <<>>
        ELSE /\ resp.status = 200
             /\ Len(resp.body) <= req.limit
             /\ IsPage(resp.body, Matching(req.category), req.sort_by,
                       Descending(req.sort_order), req.offset, req.limit)

\* ------------------------------------------------------------ C7
\* C7: for every sort_by that is not the name of an Expense field, list does
\* not fail and returns the records ordered by date, as if sort_by were "date";
\* attributes of the model class such as "metadata" or "__tablename__" included.
C7_UnknownSortFallsBackToDate ==
    (ListAccepted(req) /\ req.sort_by \notin ExpenseColumns) =>
        /\ resp.status = 200
        /\ IsPage(resp.body, Matching(req.category), "date",
                  Descending(req.sort_order), req.offset, req.limit)

\* ------------------------------------------------------------ C9
RECURSIVE SeqSum(_, _)
SeqSum(s, field) ==
    IF s = <<>> THEN 0 ELSE Head(s)[field] + SeqSum(Tail(s), field)

\* C9: for every store content, stats() returns one entry per distinct
\* category of the store, with that category's sum of amounts and record
\* count; the entries' totals add up to total_amount (the sum of amount over
\* all records) and their counts to total_expenses; on an empty store both are
\* 0 and categories is empty.  The store is the one get_stats answers from,
\* at the step that builds its response.
C9_StatsPerCategory ==
    [][\A w \in Workers :
          (job[w].pc = "summed" /\ job'[w].pc = "done") =>
              /\ job'[w].reply.status = 200
              /\ LET b == job'[w].reply.body
                     cats == b.categories
                 IN /\ b.total_amount = SumAmount(expenses)
                    /\ b.total_expenses = Cardinality(expenses)
                    /\ {cats[i].category : i \in 1..Len(cats)} =
                          {e.category : e \in expenses}
                    /\ \A i, j \in 1..Len(cats) :
                          cats[i].category = cats[j].category => i = j
                    /\ \A i \in 1..Len(cats) :
                          /\ cats[i].total =
                                SumAmount({e \in expenses : e.category = cats[i].category})
                          /\ cats[i].count =
                                Cardinality({e \in expenses :
                                                e.category = cats[i].category})
                    /\ SeqSum(cats, "total") = b.total_amount
                    /\ SeqSum(cats, "count") = b.total_expenses
                    /\ expenses = {} =>
                          (b.total_amount = 0 /\ b.total_expenses = 0 /\ cats = <<>>)]_vars

\* ------------------------------------------------------------ C10
\* C10: the count and the delete of deleteAll are two steps, and a matching
\* create of another request can commit between them: the reply carries the
\* number of records that matched at the count, the delete removes every record
\* that matches when it runs, the new one as well, and when the records removed
\* are those counted and more, deleted_count is smaller than their number.
C10_CountThenDelete ==
    [][\A w \in Workers :
          (job[w].pc = "counted" /\ job'[w].pc = "done") =>
              LET removed == expenses \ expenses'
              IN /\ job'[w].reply.status = 200
                 /\ job'[w].reply.body.deleted_count = Cardinality(job[w].counted)
                 /\ removed = Filtered(expenses, job[w].category)
                 /\ Filtered(expenses', job[w].category) = {}
                 /\ job'[w].removed = {e.id : e \in removed}
                 /\ (job[w].counted \subseteq job'[w].removed
                        /\ job[w].counted # job'[w].removed)
                       => job'[w].reply.body.deleted_count < Cardinality(removed)]_vars

\* A matching create committed between the count and the delete: the reply
\* says fewer records than were removed, and the new record is gone.
C10_Witness ==
    \E w \in Workers :
        /\ job[w].pc = "done"
        /\ job[w].op = "delete_all"
        /\ job[w].category = Some(sFood)
        /\ job[w].reply.body.deleted_count = 1
        /\ job[w].counted = {1}
        /\ job[w].removed = {1, 2}
        /\ \A e \in expenses : e.category # sFood

====
